---- MODULE Spec2Model ----
(***************************************************************************)
(* Engine session of src/app/StockfishEngine.js (class StockfishEngine):   *)
(* a UCI engine in a Web Worker driven through init / analyze / stop /     *)
(* terminate, with debouncing, a stop timeout, a periodic health check and *)
(* automatic recovery.                                                     *)
(*                                                                         *)
(* One step of the model is one macrotask of the JavaScript event loop (a  *)
(* caller call, a timer callback, a worker event) followed by the drain of *)
(* the microtasks it made runnable (the continuations of the async         *)
(* methods _startAnalysis and recoverEngine and of the caller's await).    *)
(* Every method is an operator from session record to session record, so   *)
(* that a method calling another is a composition of operators.            *)
(***************************************************************************)
EXTENDS Integers, Sequences, FiniteSets, TLC

(* ---- bounds of the exploration ---- *)
(* calls of the caller (init, analyze, stop, terminate) and failures of    *)
(* the worker (error event, failed spawn, silence of more than 15 s)       *)
MaxEvents == 4

(* calls of the wrapper's caller (analyze, stop) *)
MaxCalls == 2

(* info lines the wrapper's worker writes, and how many wait unread *)
MaxWrote == 4
MaxWire == 2

(* ranks (multipv) and depths of the info lines *)
MaxRank == 3
MaxDepth == 2

(* largest score value, in centipawns or in moves to mate *)
MaxScore == 3

(* scores given to the winning-chances functions: centipawn values are     *)
(* multiples of 100 up to MaxCp hundreds, mates are within MaxMate moves   *)
MaxCp == 12
MaxMate == 11

(* tokens after "pv" in an info line *)
MaxPv == 3

(* largest line count a caller asks for *)
MaxLines == 6

(* ---- program constants ---- *)
maxRecoveryAttempts == 3
maxRestarts == 3

(* Math.min, Math.max, Math.abs *)
Min(a, b) == IF a < b THEN a ELSE b
Max(a, b) == IF a > b THEN a ELSE b
Abs(a) == IF a < 0 THEN -a ELSE a

UNINITIALIZED == "uninitialized"
INITIALIZING == "initializing"
READY == "ready"
ANALYZING == "analyzing"
STOPPING == "stopping"
ERROR == "error"

EngineState == {UNINITIALIZED, INITIALIZING, READY, ANALYZING, STOPPING, ERROR}

(* a null pendingAnalysis / an unarmed debounce timer *)
NoReq == [fen |-> 0, infinite |-> FALSE, id |-> 0]

(* age of lastActivityTime as the health check reads it:                   *)
(* 0: at most 5000 ms, 1: more than 5000 ms, 2: more than 15000 ms         *)
Fresh == 0
Over5s == 1
Over15s == 2

(* nothing was passed to the analysis callback *)
NoDelivery == [fen |-> 0, to |-> 0, id |-> 0]

VARIABLES
    sf,         \* the StockfishEngine object, its timers, its worker and the microtask queue
    events,     \* number of caller calls and worker failures so far
    window,     \* position whose debounce window is still open (0: none)
    coalesced,  \* positions superseded by a newer analyze() inside their debounce window
    wrapper,    \* the StockfishEngine object of src/app/stockfish/StockfishEngine.js,
                \* its worker and the lines in flight from the worker
    calc        \* the last call of a pure function of the score normalizer or of
                \* the parser: its arguments and what it returned

vars == <<sf, events, window, coalesced, wrapper, calc>>

(* ---- the object after construction (constructor, lines 25-52) ---- *)
NewEngine ==
    [ state |-> UNINITIALIZED,
      worker |-> FALSE,
      currentFen |-> 0,
      analysisCallback |-> FALSE,
      pendingAnalysis |-> NoReq,
      analysisId |-> 0,
      currentAnalysisId |-> 0,
      debounceTimer |-> NoReq,
      idle |-> Fresh,
      healthCheckInterval |-> FALSE,
      initPromise |-> "null",
      initFn |-> FALSE,
      stopResolve |-> FALSE,
      recoveryAttempts |-> 0,
      multiPV |-> 3,
      \* continuations waiting on the init promise / the stop promise, runnable microtasks
      initWaiters |-> <<>>,
      stopWaiters |-> 0,
      mq |-> <<>>,
      \* armed timers that are never cleared by the code
      stopTimers |-> 0,
      initTimers |-> 0,
      recoveryTimers |-> 0,
      \* the worker: replies it owes and searches it was told to run
      wUci |-> FALSE,
      wReady |-> 0,
      wPos |-> 0,
      wSearch |-> <<>>,
      \* history
      last |-> "new",
      trail |-> <<>>,
      dispatches |-> <<>>,
      dropped |-> {},
      gaveUp |-> FALSE,
      failCause |-> "none",
      failedLive |-> 0,
      lastRecovered |-> [by |-> "none", cause |-> "none", live |-> 0, resub |-> 0],
      callerInit |-> "none",
      terminated |-> FALSE,
      initTimersLate |-> 0,
      heard |-> 0,
      delivered |-> NoDelivery,
      optionsSent |-> {},
      delays |-> <<>>,
      \* stop commands posted in this step / since the last position and go
      stopsSent |-> 0,
      stopsOfSearch |-> 0,
      \* workers that were spawned and not terminated
      workers |-> 0 ]

SetState(s, st) == [s EXCEPT !.state = st, !.trail = Append(@, st)]

(* ---- the worker's side of postMessage ---- *)
StopAll(q) == [i \in DOMAIN q |-> [q[i] EXCEPT !.canEnd = TRUE]]

WorkerRecv(s, cmd) ==
    CASE cmd.name = "uci" -> [s EXCEPT !.wUci = TRUE]
      [] cmd.name = "isready" -> [s EXCEPT !.wReady = @ + 1]
      [] cmd.name = "position" -> [s EXCEPT !.wPos = cmd.fen]
      [] cmd.name = "go" ->
            [s EXCEPT !.wSearch = Append(@, [fen |-> s.wPos, canEnd |-> ~cmd.infinite])]
      [] cmd.name = "stop" -> [s EXCEPT !.wSearch = StopAll(@),
                                        !.stopsSent = @ + 1,
                                        !.stopsOfSearch = @ + 1]
      [] cmd.name = "setoption" -> [s EXCEPT !.optionsSent = @ \cup {cmd.value}]
      [] OTHER -> s

(* sendCommand, lines 237-246 (postMessage of a string does not throw) *)
sendCommand(s, cmd) == IF s.worker THEN WorkerRecv(s, cmd) ELSE s

Cmd(n) == [name |-> n]

(* ---- promises ---- *)
(* this.initPromise is "null", "pending", "resolved" or "rejected"; initFn *)
(* says whether this.initResolve / this.initReject are set.                *)
Waiter(kind) ==
    [kind |-> kind, outcome |-> "pending", wasAnalyzing |-> FALSE, lastFen |-> 0,
     lastCallback |-> FALSE, by |-> "none", cause |-> "none", live |-> 0]

(* await of the promise this.initPromise *)
AwaitInit(s, w) ==
    IF s.initPromise = "pending"
    THEN [s EXCEPT !.initWaiters = Append(@, w)]
    ELSE [s EXCEPT !.mq = Append(@, [w EXCEPT !.outcome = s.initPromise])]

(* a call of this.initResolve() / this.initReject(error): the waiters of   *)
(* the promise become runnable in the order they started waiting           *)
SettleInit(s, outcome) ==
    IF s.initPromise = "pending"
    THEN [s EXCEPT !.mq = @ \o [i \in DOMAIN s.initWaiters |->
                                   [s.initWaiters[i] EXCEPT !.outcome = outcome]],
                   !.initWaiters = <<>>,
                   !.initPromise = outcome]
    ELSE s

(* cleanup that drops the worker without terminating it *)
cleanupDropsWorker(s) ==
    LET s1 == [s EXCEPT !.healthCheckInterval = FALSE,
                        !.debounceTimer = NoReq,
                        !.worker = FALSE,
                        !.wUci = FALSE, !.wReady = 0, !.wPos = 0, !.wSearch = <<>>]
        s2 == SetState(s1, UNINITIALIZED)
    IN [s2 EXCEPT !.pendingAnalysis = NoReq,
                  !.stopResolve = FALSE,
                  !.stopWaiters = 0]

(* cleanup, lines 127-153; worker.terminate() also discards what the      *)
(* worker had still to answer                                              *)
cleanup(s) ==
    LET s1 == [s EXCEPT !.healthCheckInterval = FALSE,
                        !.debounceTimer = NoReq,
                        !.worker = FALSE,
                        !.workers = IF s.worker THEN @ - 1 ELSE @,
                        !.wUci = FALSE, !.wReady = 0, !.wPos = 0, !.wSearch = <<>>]
        s2 == SetState(s1, UNINITIALIZED)
    IN [s2 EXCEPT !.pendingAnalysis = NoReq,
                  !.stopResolve = FALSE,
                  !.stopWaiters = 0]

(* scheduleRecovery that computes the delay after counting the attempt *)
scheduleRecoveryCountsFirst(s) ==
    IF s.recoveryAttempts >= maxRecoveryAttempts
    THEN [SetState(s, ERROR) EXCEPT !.gaveUp = TRUE]
    ELSE LET delay == Min(1000 * 2^(s.recoveryAttempts + 1), 10000)
         IN [s EXCEPT !.recoveryAttempts = @ + 1, !.recoveryTimers = @ + 1,
                      !.delays = Append(@, delay)]

(* scheduleRecovery, lines 193-206; delays: the delays of the timers armed *)
(* since the last successful recovery, in ms                               *)
scheduleRecovery(s) ==
    IF s.recoveryAttempts >= maxRecoveryAttempts
    THEN [SetState(s, ERROR) EXCEPT !.gaveUp = TRUE]
    ELSE LET delay == Min(1000 * 2^s.recoveryAttempts, 10000)
         IN [s EXCEPT !.recoveryAttempts = @ + 1, !.recoveryTimers = @ + 1,
                      !.delays = Append(@, delay)]

(* _doAnalyze, lines 468-478, and _doAnalyzeInfinite, lines 483-493 *)
doAnalyze(s, req) ==
    LET s1 == [s EXCEPT !.currentFen = req.fen,
                        !.analysisCallback = TRUE,
                        !.dispatches = Append(@, [fen |-> req.fen, id |-> req.id,
                                                  infinite |-> req.infinite,
                                                  latest |-> s.analysisId,
                                                  from |-> s.state]),
                        !.stopsOfSearch = 0]
        s2 == [SetState(s1, ANALYZING) EXCEPT !.idle = Fresh]
        s3 == sendCommand(s2, [name |-> "position", fen |-> req.fen])
    IN sendCommand(s3, [name |-> "go", infinite |-> req.infinite])

(* processPendingAnalysis that starts a request whatever its id *)
processPendingAnalysisAnyId(s) ==
    IF s.state # READY THEN s
    ELSE IF s.pendingAnalysis = NoReq THEN s
    ELSE doAnalyze([s EXCEPT !.pendingAnalysis = NoReq,
                             !.currentAnalysisId = s.pendingAnalysis.id],
                   s.pendingAnalysis)

(* processPendingAnalysis that does not look at the state *)
processPendingAnalysisAnyState(s) ==
    IF s.pendingAnalysis = NoReq THEN s
    ELSE LET req == s.pendingAnalysis
             s1 == [s EXCEPT !.pendingAnalysis = NoReq]
         IN IF req.id = s.analysisId
            THEN doAnalyze([s1 EXCEPT !.currentAnalysisId = req.id], req)
            ELSE [s1 EXCEPT !.dropped = @ \cup {req.id}]

(* processPendingAnalysis that leaves the request queued when it starts it *)
processPendingAnalysisKeepsQueued(s) ==
    IF s.state # READY THEN s
    ELSE IF s.pendingAnalysis = NoReq THEN s
    ELSE LET req == s.pendingAnalysis
         IN IF req.id = s.analysisId
            THEN doAnalyze([s EXCEPT !.currentAnalysisId = req.id], req)
            ELSE [s EXCEPT !.pendingAnalysis = NoReq, !.dropped = @ \cup {req.id}]

(* processPendingAnalysis, lines 332-351 *)
processPendingAnalysis(s) ==
    IF s.state # READY THEN s
    ELSE IF s.pendingAnalysis = NoReq THEN s
    ELSE LET req == s.pendingAnalysis
             s1 == [s EXCEPT !.pendingAnalysis = NoReq]
         IN IF req.id = s.analysisId
            THEN doAnalyze([s1 EXCEPT !.currentAnalysisId = req.id], req)
            ELSE [s1 EXCEPT !.dropped = @ \cup {req.id}]

(* this.stopResolve() with the clearing of stopResolve and stopPromise     *)
(* that follows it everywhere: the _startAnalysis calls awaiting the stop  *)
(* promise become runnable                                                 *)
ResolveStop(s) ==
    [s EXCEPT !.mq = @ \o [i \in 1..s.stopWaiters |->
                              [Waiter("start") EXCEPT !.outcome = "resolved"]],
              !.stopWaiters = 0,
              !.stopResolve = FALSE]

(* forceStopComplete, lines 180-188 *)
forceStopComplete(s) ==
    LET s1 == IF s.stopResolve THEN ResolveStop(s) ELSE s
    IN processPendingAnalysis(SetState(s1, READY))

(* stopAndWait, lines 384-406, as awaited by _startAnalysis *)
stopAndWait(s) ==
    IF s.state # ANALYZING
    THEN [s EXCEPT !.mq = Append(@, [Waiter("start") EXCEPT !.outcome = "resolved"])]
    ELSE LET s1 == IF ~s.stopResolve
                   THEN LET a == [SetState(s, STOPPING) EXCEPT !.stopResolve = TRUE]
                        IN [sendCommand(a, Cmd("stop")) EXCEPT !.stopTimers = @ + 1]
                   ELSE s
         IN [s1 EXCEPT !.stopWaiters = @ + 1]

(* the end of _startAnalysis, lines 564-571 *)
StartTail(s) ==
    IF s.state = READY THEN processPendingAnalysis(s)
    ELSE IF s.state = INITIALIZING THEN AwaitInit(s, Waiter("start2"))
    ELSE s

(* _startAnalysis that gives the request up when the session is           *)
(* Initializing                                                            *)
startAnalysisUnlessInitializing(s, req) ==
    IF req.id # s.analysisId \/ s.state = INITIALIZING THEN s
    ELSE LET s1 == [s EXCEPT !.pendingAnalysis = req]
         IN IF s1.state = ANALYZING \/ s1.state = STOPPING
            THEN stopAndWait(s1)
            ELSE StartTail(s1)

(* _startAnalysis, lines 550-572, up to its first await *)
startAnalysis(s, req) ==
    IF req.id # s.analysisId THEN s
    ELSE LET s1 == [s EXCEPT !.pendingAnalysis = req]
         IN IF s1.state = ANALYZING \/ s1.state = STOPPING
            THEN stopAndWait(s1)
            ELSE StartTail(s1)

(* analyze that starts the analysis at once instead of arming the timer *)
analyzeNoDebounce(s, fen, infinite) ==
    IF ~s.worker \/ s.state = UNINITIALIZED \/ s.state = ERROR THEN s
    ELSE startAnalysis([s EXCEPT !.analysisId = @ + 1],
                       [fen |-> fen, infinite |-> infinite, id |-> s.analysisId + 1])

(* analyze, lines 498-521, and analyzeInfinite, lines 526-545 *)
analyze(s, fen, infinite) ==
    IF ~s.worker \/ s.state = UNINITIALIZED \/ s.state = ERROR THEN s
    ELSE [s EXCEPT !.analysisId = @ + 1,
                   !.debounceTimer = [fen |-> fen, infinite |-> infinite,
                                      id |-> s.analysisId + 1]]

(* stop that also sends the command when the session is Stopping *)
stopWhileStopping(s) ==
    LET s1 == [s EXCEPT !.analysisId = @ + 1,
                        !.pendingAnalysis = NoReq,
                        !.debounceTimer = NoReq]
    IN IF s1.state = ANALYZING \/ s1.state = STOPPING
       THEN sendCommand(SetState(s1, STOPPING), Cmd("stop"))
       ELSE s1

(* stop, lines 577-590 *)
stop(s) ==
    LET s1 == [s EXCEPT !.analysisId = @ + 1,
                        !.pendingAnalysis = NoReq,
                        !.debounceTimer = NoReq]
    IN IF s1.state = ANALYZING
       THEN sendCommand(SetState(s1, STOPPING), Cmd("stop"))
       ELSE s1

(* setMultiPV, lines 606-611 *)
setMultiPV(s, n) ==
    LET s1 == [s EXCEPT !.multiPV = n]
    IN IF s1.state = READY \/ s1.state = ANALYZING
       THEN sendCommand(s1, [name |-> "setoption", value |-> n])
       ELSE s1

(* init, lines 57-122; spawned: whether new Worker(...) succeeds; w: the   *)
(* continuation of whoever awaits the returned promise                     *)
init(s, spawned, w) ==
    IF s.initPromise # "null" /\ s.state = INITIALIZING THEN AwaitInit(s, w)
    ELSE IF s.state = READY /\ s.worker
    THEN [s EXCEPT !.mq = Append(@, [w EXCEPT !.outcome = "resolved"])]
    ELSE LET s1 == SetState(cleanup(s), INITIALIZING)
             s2 == IF spawned
                   THEN [sendCommand([s1 EXCEPT !.worker = TRUE, !.workers = @ + 1],
                                     Cmd("uci"))
                            EXCEPT !.initTimers = @ + 1,
                                   !.initPromise = "pending"]
                   ELSE [SetState(s1, ERROR) EXCEPT !.initPromise = "rejected"]
         IN AwaitInit([s2 EXCEPT !.initFn = TRUE, !.initWaiters = <<>>], w)

(* recoverEngine that looks at the state after the cleanup *)
recoverEngineLate(s, spawned, by) ==
    LET c == cleanup(s)
        w == [Waiter("recover") EXCEPT !.wasAnalyzing = (c.state = ANALYZING),
                                       !.lastFen = c.currentFen,
                                       !.lastCallback = c.analysisCallback,
                                       !.by = by,
                                       !.cause = s.failCause,
                                       !.live = s.failedLive]
    IN init(c, spawned, w)

(* recoverEngine, lines 211-232, up to its await; by: the caller, the      *)
(* recovery timer or the health check                                      *)
recoverEngine(s, spawned, by) ==
    LET w == [Waiter("recover") EXCEPT !.wasAnalyzing = (s.state = ANALYZING),
                                       !.lastFen = s.currentFen,
                                       !.lastCallback = s.analysisCallback,
                                       !.by = by,
                                       !.cause = s.failCause,
                                       !.live = s.failedLive]
    IN init(cleanup(s), spawned, w)

(* the code after an await *)
RunCont(s, w) ==
    CASE w.kind = "start" -> StartTail(s)
      [] w.kind = "start2" ->
            IF w.outcome = "resolved" THEN processPendingAnalysis(s) ELSE s
      [] w.kind = "recover" ->
            IF w.outcome = "resolved"
            THEN LET resume == w.wasAnalyzing /\ w.lastFen # 0 /\ w.lastCallback
                     s1 == [s EXCEPT !.recoveryAttempts = 0,
                                     !.delays = <<>>,
                                     !.lastRecovered =
                                         [by |-> w.by, cause |-> w.cause, live |-> w.live,
                                          resub |-> IF resume THEN w.lastFen ELSE 0],
                                     !.failCause = "none",
                                     !.failedLive = 0]
                 IN IF resume THEN analyze(s1, w.lastFen, TRUE) ELSE s1
            ELSE scheduleRecovery(s)
      [] w.kind = "caller" -> [s EXCEPT !.callerInit = w.outcome]
      [] OTHER -> s

(* the microtask checkpoint at the end of a macrotask *)
RECURSIVE Drain(_)
Drain(s) ==
    IF s.mq = <<>> THEN s
    ELSE Drain(RunCont([s EXCEPT !.mq = Tail(@)], Head(s.mq)))

(* worker.onmessage, lines 80-84, with handleMessage and                   *)
(* handleSingleMessage, lines 251-327, for each line the worker sends      *)
onUciOk(s) ==
    sendCommand(sendCommand(s, [name |-> "setoption", value |-> s.multiPV]),
                Cmd("isready"))

onReadyOk(s) ==
    LET s1 == IF s.state = INITIALIZING
              THEN LET a == [SetState(s, READY) EXCEPT !.healthCheckInterval = TRUE,
                                                       !.initTimersLate = @ + 1]
                   IN IF a.initFn
                      THEN [SettleInit(a, "resolved") EXCEPT !.initFn = FALSE]
                      ELSE a
              ELSE s
    IN processPendingAnalysis(s1)

(* an info line with score and pv, and parseInfo, lines 411-463: heard is  *)
(* the position of the search the worker wrote the line for                *)
onInfo(s) ==
    IF s.analysisCallback /\ s.currentAnalysisId = s.analysisId
    THEN [s EXCEPT !.delivered = [fen |-> s.heard, to |-> s.currentFen,
                                  id |-> s.currentAnalysisId]]
    ELSE s

onBestMoveNoDispatch(s) ==
    LET wasStopping == s.state = STOPPING
        s1 == SetState(s, READY)
    IN IF wasStopping /\ s1.stopResolve THEN ResolveStop(s1) ELSE s1

onBestMove(s) ==
    LET wasStopping == s.state = STOPPING
        s1 == SetState(s, READY)
        s2 == IF wasStopping /\ s1.stopResolve THEN ResolveStop(s1) ELSE s1
    IN processPendingAnalysis(s2)

(* a handler that takes every line it does not know for the end of the    *)
(* search                                                                  *)
onmessageLoose(s, line) ==
    LET s1 == [s EXCEPT !.idle = Fresh]
    IN CASE line = "uciok" -> onUciOk(s1)
         [] line = "readyok" -> onReadyOk(s1)
         [] line = "info" -> onInfo(s1)
         [] OTHER -> onBestMove(s1)

onmessage(s, line) ==
    LET s1 == [s EXCEPT !.idle = Fresh]
    IN CASE line = "uciok" -> onUciOk(s1)
         [] line = "readyok" -> onReadyOk(s1)
         [] line = "info" -> onInfo(s1)
         [] line = "bestmove" -> onBestMove(s1)
         [] OTHER -> s1

(* worker.onerror, lines 86-96 *)
onerror(s) ==
    LET s1 == [SetState(s, ERROR) EXCEPT
                   !.failCause = "fault",
                   !.failedLive = IF s.state = ANALYZING THEN s.currentFen ELSE 0]
        s2 == IF s1.initFn
              THEN [SettleInit(s1, "rejected") EXCEPT !.initFn = FALSE]
              ELSE s1
    IN scheduleRecovery(s2)

(* the init timeout callback, lines 102-112 *)
onInitTimeout(s) ==
    IF s.state = INITIALIZING
    THEN LET s1 == IF s.initFn
                   THEN [SettleInit(s, "rejected") EXCEPT !.initFn = FALSE]
                   ELSE s
         IN [SetState(s1, ERROR) EXCEPT !.failCause = "timeout", !.failedLive = 0]
    ELSE s

(* a stop timeout that forces nothing *)
onStopTimeoutNever(s) == s

(* the stop timeout callback, lines 396-401 *)
onStopTimeout(s) == IF s.stopResolve THEN forceStopComplete(s) ELSE s

(* the health check callback, lines 163-174 *)
Stalled(s) == s.state = ANALYZING /\ s.idle = Over15s

onHealthCheck(s, spawned) ==
    LET s1 == IF Stalled(s)
              THEN recoverEngine([s EXCEPT !.failCause = "stall",
                                           !.failedLive = s.currentFen],
                                 spawned, "healthCheck")
              ELSE s
    IN IF s1.state = STOPPING /\ s1.idle >= Over5s THEN forceStopComplete(s1) ELSE s1

(***************************************************************************)
(* The engine wrapper of src/app/stockfish/StockfishEngine.js and its      *)
(* ranked-line collection pvLines.  The worker takes each command when it  *)
(* is posted; the lines it writes wait in wire until the wrapper's         *)
(* onmessage handler takes them, in order.                                 *)
(***************************************************************************)
NoFen == [pos |-> 0, turn |-> ""]

(* the positions the caller analyses: fen.split(' ')[1] is the side to move *)
Fens == {[pos |-> 1, turn |-> "w"], [pos |-> 2, turn |-> "b"]}

(* the "score <kind> <value>" fields of an info line *)
Scores == [kind : {"cp", "mate"}, value : -MaxScore..MaxScore]

(* a null entry of pvLines *)
NoLine == [depth |-> 0, multiPv |-> 0, score |-> [kind |-> "cp", value |-> 0],
           fen |-> NoFen, of |-> NoFen, n |-> 0, raw |-> [kind |-> "cp", value |-> 0]]

(* nothing emitted yet through onEvaluation / onBestMove *)
NoSnapshot == [depth |-> 0, pvLines |-> <<>>, fen |-> NoFen]

(* the object after construction (constructor and init, lines 263-319) *)
NewWrapper ==
    [ worker |-> TRUE,
      isReady |-> FALSE,
      isSearching |-> FALSE,
      uciOk |-> FALSE,
      currentFen |-> NoFen,
      isWhiteTurn |-> TRUE,
      multiPv |-> 3,
      pvLines |-> <<>>,
      ranks |-> {},
      uciTimer |-> TRUE,
      \* the worker: its position, the position it searches, the lines it wrote
      wPos |-> NoFen,
      wRun |-> NoFen,
      wrote |-> 0,
      wire |-> <<>>,
      \* what the callbacks received last, and the step that was taken last
      snapshot |-> NoSnapshot,
      evaluation |-> NoLine,
      calls |-> 0,
      last |-> "new",
      optionsSent |-> {},
      \* error recovery: restarts so far, armed restart timers, and the
      \* workers that were spawned and not terminated
      restartCount |-> 0,
      restartTimers |-> 0,
      workers |-> 1 ]

(* the worker's side of postMessage *)
W_WorkerRecv(w, cmd) ==
    CASE cmd.name = "uci" -> [w EXCEPT !.wire = Append(@, [type |-> "uciok"])]
      [] cmd.name = "isready" -> [w EXCEPT !.wire = Append(@, [type |-> "readyok"])]
      [] cmd.name = "position" -> [w EXCEPT !.wPos = cmd.fen]
      [] cmd.name = "go" -> [w EXCEPT !.wRun = w.wPos]
      [] cmd.name = "stop" ->
            IF w.wRun # NoFen
            THEN [w EXCEPT !.wRun = NoFen, !.wire = Append(@, [type |-> "bestmove"])]
            ELSE w
      [] cmd.name = "setoption" -> [w EXCEPT !.optionsSent = @ \cup {cmd.value}]
      [] OTHER -> w

(* send, lines 528-537 *)
W_send(w, cmd) == IF w.worker THEN W_WorkerRecv(w, cmd) ELSE w

(* isWhiteToMove, lines 544-547 *)
isWhiteToMove(fen) == fen.turn = "" \/ fen.turn = "w"

(* normalizeScore with the mate branch left out *)
normalizeScoreCpOnly(w, score) ==
    IF w.isWhiteTurn THEN score
    ELSE [kind |-> "cp", value |-> -score.value]

(* normalizeScore, lines 415-427 *)
normalizeScore(w, score) ==
    IF w.isWhiteTurn THEN score
    ELSE IF score.kind = "mate"
         THEN [kind |-> "mate", value |-> -score.value]
         ELSE [kind |-> "cp", value |-> -score.value]

(* [...this.pvLines].filter(Boolean) *)
Present(lines) == SelectSeq(lines, LAMBDA l : l # NoLine)

(* the onEvaluation callback of EngineAnalysis.js, lines 66-74 *)
onEvaluation(w, snap) ==
    [w EXCEPT !.snapshot = snap,
              !.evaluation = IF Len(snap.pvLines) > 0 THEN snap.pvLines[1] ELSE @]

(* parseInfo that appends the line to the collection *)
W_parseInfoAppend(w, line) ==
    LET multiPv == IF line.multipv = 0 THEN 1 ELSE line.multipv
    IN IF line.depth > 0 /\ line.pv
       THEN LET evalData == [depth |-> line.depth, multiPv |-> multiPv,
                             score |-> normalizeScore(w, line.score),
                             fen |-> w.currentFen, of |-> line.of, n |-> line.n,
                             raw |-> line.score]
                w1 == [w EXCEPT !.pvLines = Append(@, evalData),
                                !.ranks = @ \cup {multiPv}]
            IN onEvaluation(w1, [depth |-> line.depth,
                                 pvLines |-> Present(w1.pvLines),
                                 fen |-> w1.currentFen])
       ELSE w

(* parseInfo, lines 429-508 *)
W_parseInfo(w, line) ==
    LET multiPv == IF line.multipv = 0 THEN 1 ELSE line.multipv
    IN IF line.depth > 0 /\ line.pv
       THEN LET evalData == [depth |-> line.depth, multiPv |-> multiPv,
                             score |-> normalizeScore(w, line.score),
                             fen |-> w.currentFen, of |-> line.of, n |-> line.n,
                             raw |-> line.score]
                grown == [i \in 1..(IF Len(w.pvLines) < multiPv THEN multiPv
                                                                 ELSE Len(w.pvLines)) |->
                             IF i <= Len(w.pvLines) THEN w.pvLines[i] ELSE NoLine]
                w1 == [w EXCEPT !.pvLines = [grown EXCEPT ![multiPv] = evalData],
                                !.ranks = @ \cup {multiPv}]
            IN onEvaluation(w1, [depth |-> line.depth,
                                 pvLines |-> Present(w1.pvLines),
                                 fen |-> w1.currentFen])
       ELSE w

(* parseBestMove, lines 510-526, with the onBestMove callback of           *)
(* EngineAnalysis.js, lines 75-78                                          *)
W_parseBestMove(w) ==
    [w EXCEPT !.isSearching = FALSE,
              !.snapshot = [@ EXCEPT !.pvLines = Present(w.pvLines)]]

(* handleMessage, lines 372-407 *)
W_handleMessage(w, line) ==
    CASE line.type = "uciok" ->
            W_send(W_send([w EXCEPT !.uciOk = TRUE],
                          [name |-> "setoption", value |-> w.multiPv]),
                   [name |-> "isready"])
      [] line.type = "readyok" -> [w EXCEPT !.isReady = TRUE]
      [] line.type = "info" -> W_parseInfo(w, line)
      [] line.type = "bestmove" -> W_parseBestMove(w)
      [] OTHER -> w

(* stop that also empties the collection *)
W_stopClears(w) ==
    IF w.isSearching
    THEN [W_send(w, [name |-> "stop"]) EXCEPT !.isSearching = FALSE, !.pvLines = <<>>]
    ELSE w

(* stop, lines 601-606 *)
W_stop(w) ==
    IF w.isSearching
    THEN [W_send(w, [name |-> "stop"]) EXCEPT !.isSearching = FALSE]
    ELSE w

(* setMultiPv, lines 612-617 *)
W_setMultiPv(w, multiPv) ==
    LET w1 == [w EXCEPT !.multiPv = Max(1, Min(5, multiPv))]
    IN IF w1.isReady
       THEN W_send(w1, [name |-> "setoption", value |-> w1.multiPv])
       ELSE w1

(* analyze, lines 554-596; lineCount is options.multiPv, 0 when the option *)
(* is not given                                                            *)
W_analyze(w, fen, lineCount) ==
    IF ~w.isReady THEN w
    ELSE LET w1 == IF w.isSearching THEN W_stop(w) ELSE w
             w2 == [w1 EXCEPT !.currentFen = fen,
                              !.isWhiteTurn = isWhiteToMove(fen),
                              !.pvLines = <<>>,
                              !.ranks = {}]
             multiPv == IF lineCount # 0 THEN lineCount ELSE w2.multiPv
             w2b == IF multiPv # w2.multiPv
                    THEN W_send([w2 EXCEPT !.multiPv = multiPv],
                                [name |-> "setoption", value |-> multiPv])
                    ELSE w2
             w3 == W_send(W_send(w2b, [name |-> "ucinewgame"]), [name |-> "isready"])
             w4 == W_send(w3, [name |-> "position", fen |-> fen])
         IN W_send([w4 EXCEPT !.isSearching = TRUE], [name |-> "go"])

(* worker.terminate() and this.worker = null: the lines the worker wrote   *)
(* and the wrapper has not taken are discarded                             *)
W_terminate(w) ==
    IF w.worker
    THEN [w EXCEPT !.worker = FALSE, !.workers = @ - 1,
                   !.wPos = NoFen, !.wRun = NoFen, !.wire = <<>>]
    ELSE w

(* handleWorkerError, lines 327-370; isRecoverable: whether the message    *)
(* names one of the recoverable errors                                     *)
W_handleWorkerError(w, isRecoverable) ==
    LET w1 == [w EXCEPT !.isSearching = FALSE]
    IN IF isRecoverable /\ w1.restartCount < maxRestarts
       THEN [W_terminate([w1 EXCEPT !.restartCount = @ + 1])
                EXCEPT !.isReady = FALSE,
                       !.uciOk = FALSE,
                       !.restartTimers = @ + 1]
       ELSE w1

(* init, lines 292-322; spawned: whether new Worker(...) succeeds, and     *)
(* isRecoverable for the error it throws when it does not                  *)
W_init(w, spawned, isRecoverable) ==
    IF spawned
    THEN [w EXCEPT !.worker = TRUE, !.workers = @ + 1, !.uciTimer = TRUE,
                   !.wPos = NoFen, !.wRun = NoFen, !.wire = <<>>]
    ELSE W_handleWorkerError(w, isRecoverable)

(* destroy, lines 622-634 *)
W_destroy(w) ==
    LET w1 == W_stop(w)
        w2 == IF w1.worker THEN W_terminate(W_send(w1, [name |-> "quit"])) ELSE w1
    IN [w2 EXCEPT !.isReady = FALSE]

(***************************************************************************)
(* The winning-chances functions of the score normalizer (lines 646-687).  *)
(* A chance in [-1, 1] is held as an integer number of 1/Scale, every      *)
(* division rounds to the nearest unit.                                    *)
(***************************************************************************)
Scale == 10000

(* Math.exp(MULTIPLIER * cp) with MULTIPLIER = -0.00368208, in units of    *)
(* 1/Scale, for cp = -2100, -2000, ..., 2100                               *)
ExpTable ==
    << 22809972, 15783890, 10922030, 7557752, 5229762, 3618855, 2504151, 1732806,
       1199055, 829714, 574140, 397289, 274914, 190233, 131636, 91089, 63031,
       43616, 30181, 20884, 14451, 10000, 6920, 4788, 3313, 2293, 1587, 1098, 760,
       526, 364, 252, 174, 121, 83, 58, 40, 28, 19, 13, 9, 6, 4 >>

Exp(cp) == ExpTable[cp \div 100 + 22]

(* rawWinningChances, lines 653-655 *)
rawWinningChances(cp) ==
    LET d == Scale + Exp(cp)
    IN (2 * Scale * Scale + d \div 2) \div d - Scale

(* cpWinningChances, lines 662-664 *)
cpWinningChances(cp) == rawWinningChances(Min(Max(-1000, cp), 1000))

(* the centipawn equivalent of a mate, line 672 *)
MateCp(mate) == (21 - Min(10, Abs(mate))) * 100

(* mateWinningChances, lines 671-675 *)
mateWinningChances(mate) ==
    LET cp == MateCp(mate)
        signed == cp * (IF mate > 0 THEN 1 ELSE -1)
    IN rawWinningChances(signed)

(* evalWinningChances, lines 682-687 *)
evalWinningChances(score) ==
    IF score.kind = "mate" THEN mateWinningChances(score.value)
    ELSE cpWinningChances(score.value)

(* the scores the functions are given *)
ChanceScores ==
    [kind : {"cp"}, value : {100 * k : k \in -MaxCp..MaxCp}]
        \cup [kind : {"mate"}, value : -MaxMate..MaxMate]

(***************************************************************************)
(* The principal variation of an info line: parts.slice(i + 1) after the   *)
(* token "pv", as parseInfo of either engine keeps it.  A token is the     *)
(* sequence of its characters.                                             *)
(***************************************************************************)
Files == {"a", "b", "c", "d", "e", "f", "g", "h"}
Ranks == {"1", "2", "3", "4", "5", "6", "7", "8"}

(* /^[a-h][1-8][a-h][1-8]/.test(p), line 452 of src/app/StockfishEngine.js *)
RegexTest(p) ==
    /\ Len(p) >= 4
    /\ p[1] \in Files /\ p[2] \in Ranks /\ p[3] \in Files /\ p[4] \in Ranks

(* result.pv, line 452 of src/app/StockfishEngine.js *)
parseInfoPv(tail) ==
    SelectSeq(tail, LAMBDA p : p # <<>> /\ Len(p) >= 4 /\ RegexTest(p))

(* pv, line 467 of src/app/stockfish/StockfishEngine.js *)
W_parseInfoPv(tail) ==
    SelectSeq(tail, LAMBDA m : m # <<>> /\ Len(m) >= 4)

(* the tokens a line may hold after "pv": e2e4, e7e8q, abcd, xx, e2e4zz    *)
(* and the empty token two consecutive spaces make                         *)
Tokens ==
    { <<"e", "2", "e", "4">>, <<"e", "7", "e", "8", "q">>, <<"a", "b", "c", "d">>,
      <<"x", "x">>, <<"e", "2", "e", "4", "z", "z">>, <<>> }

PvTails == UNION {[1..n -> Tokens] : n \in 0..MaxPv}

(* ---- the steps ---- *)
Begin(s, step) ==
    [s EXCEPT !.last = step, !.trail = <<>>, !.heard = 0, !.delivered = NoDelivery,
              !.stopsSent = 0]

Accepts(s) == s.worker /\ s.state # UNINITIALIZED /\ s.state # ERROR

(* whether init() would spawn a worker rather than return early *)
InitSpawns(s) ==
    /\ ~(s.initPromise # "null" /\ s.state = INITIALIZING)
    /\ ~(s.state = READY /\ s.worker)

Init ==
    /\ sf = NewEngine
    /\ events = 0
    /\ window = 0
    /\ coalesced = {}
    /\ wrapper = NewWrapper
    /\ calc = [fn |-> "none"]

CallerInit ==
    /\ events < MaxEvents
    /\ sf' = Drain(init([Begin(sf, "init") EXCEPT !.callerInit = "pending",
                                          !.gaveUp = FALSE,
                                          !.terminated = FALSE,
                                          !.failedLive = 0],
                        TRUE, Waiter("caller")))
    /\ events' = events + 1
    /\ window' = IF InitSpawns(sf) THEN 0 ELSE window
    /\ UNCHANGED coalesced
    /\ UNCHANGED <<wrapper, calc>>

(* init() when new Worker(...) throws *)
CallerInitNoWorker ==
    /\ events + 1 < MaxEvents
    /\ InitSpawns(sf)
    /\ sf' = Drain(init([Begin(sf, "init") EXCEPT !.callerInit = "pending",
                                          !.gaveUp = FALSE,
                                          !.terminated = FALSE,
                                          !.failedLive = 0],
                        FALSE, Waiter("caller")))
    /\ events' = events + 2
    /\ window' = 0
    /\ UNCHANGED coalesced
    /\ UNCHANGED <<wrapper, calc>>

(* the caller analyses a position it has not asked for before: the         *)
(* position is named by the request id the call is given                   *)
CallerAnalyze ==
    /\ events < MaxEvents
    /\ Accepts(sf)
    /\ \E infinite \in BOOLEAN :
         sf' = Drain(analyze([Begin(sf, "analyze") EXCEPT !.failedLive = 0],
                             sf.analysisId + 1, infinite))
    /\ events' = events + 1
    /\ window' = sf.analysisId + 1
    /\ coalesced' = IF window # 0 THEN coalesced \cup {window} ELSE coalesced
    /\ UNCHANGED <<wrapper, calc>>

(* analyze() and analyzeInfinite() without a worker, or in Uninitialized   *)
(* or Error                                                                *)
CallerAnalyzeRefused ==
    /\ ~Accepts(sf)
    /\ \E infinite \in BOOLEAN :
         sf' = Drain(analyze(Begin(sf, "analyze"), sf.analysisId + 1, infinite))
    /\ UNCHANGED <<events, window, coalesced>>
    /\ UNCHANGED <<wrapper, calc>>

CallerStop ==
    /\ events < MaxEvents
    /\ sf' = Drain(stop([Begin(sf, "stop") EXCEPT !.failedLive = 0]))
    /\ events' = events + 1
    /\ window' = 0
    /\ UNCHANGED coalesced
    /\ UNCHANGED <<wrapper, calc>>

(* terminate, lines 637-639 *)
CallerTerminate ==
    /\ events < MaxEvents
    /\ sf' = Drain(cleanup([Begin(sf, "terminate") EXCEPT !.gaveUp = FALSE,
                                                         !.terminated = TRUE,
                                                         !.failedLive = 0]))
    /\ events' = events + 1
    /\ window' = 0
    /\ UNCHANGED coalesced
    /\ UNCHANGED <<wrapper, calc>>

DebounceFire ==
    /\ sf.debounceTimer # NoReq
    /\ sf' = Drain(startAnalysis([Begin(sf, "debounce") EXCEPT !.debounceTimer = NoReq],
                                 sf.debounceTimer))
    /\ window' = 0
    /\ UNCHANGED <<events, coalesced>>
    /\ UNCHANGED <<wrapper, calc>>

StopTimeout ==
    /\ sf.stopTimers > 0
    /\ sf' = Drain(onStopTimeout([Begin(sf, "stopTimeout") EXCEPT !.stopTimers = @ - 1]))
    /\ UNCHANGED <<events, window, coalesced>>
    /\ UNCHANGED <<wrapper, calc>>

(* the timeout of an init that readyok has not answered *)
InitTimeout ==
    /\ sf.initTimers > sf.initTimersLate
    /\ sf' = Drain(onInitTimeout([Begin(sf, "initTimeout") EXCEPT !.initTimers = @ - 1]))
    /\ UNCHANGED <<events, window, coalesced>>
    /\ UNCHANGED <<wrapper, calc>>

(* the timeout of an init that readyok answered before it fired *)
InitTimeoutLate ==
    /\ sf.initTimersLate > 0
    /\ sf' = Drain(onInitTimeout([Begin(sf, "initTimeoutLate")
                                     EXCEPT !.initTimers = @ - 1,
                                            !.initTimersLate = @ - 1]))
    /\ UNCHANGED <<events, window, coalesced>>
    /\ UNCHANGED <<wrapper, calc>>

RecoveryFire ==
    /\ sf.recoveryTimers > 0
    /\ sf' = Drain(recoverEngine([Begin(sf, "recovery") EXCEPT !.recoveryTimers = @ - 1],
                                 TRUE, "timer"))
    /\ window' = 0
    /\ UNCHANGED <<events, coalesced>>
    /\ UNCHANGED <<wrapper, calc>>

(* a scheduled recovery when new Worker(...) throws *)
RecoveryFireNoWorker ==
    /\ sf.recoveryTimers > 0
    /\ events < MaxEvents
    /\ sf' = Drain(recoverEngine([Begin(sf, "recovery") EXCEPT !.recoveryTimers = @ - 1],
                                 FALSE, "timer"))
    /\ events' = events + 1
    /\ window' = 0
    /\ UNCHANGED coalesced
    /\ UNCHANGED <<wrapper, calc>>

HealthCheck ==
    /\ sf.healthCheckInterval
    /\ sf' = Drain(onHealthCheck(Begin(sf, "healthCheck"), TRUE))
    /\ window' = IF Stalled(sf) THEN 0 ELSE window
    /\ UNCHANGED <<events, coalesced>>
    /\ UNCHANGED <<wrapper, calc>>

(* the health check's recovery when new Worker(...) throws *)
HealthCheckNoWorker ==
    /\ sf.healthCheckInterval
    /\ Stalled(sf)
    /\ events < MaxEvents
    /\ sf' = Drain(onHealthCheck(Begin(sf, "healthCheck"), FALSE))
    /\ events' = events + 1
    /\ window' = 0
    /\ UNCHANGED coalesced
    /\ UNCHANGED <<wrapper, calc>>

(* 5 s pass without a message from the worker *)
Silence ==
    /\ sf.state \in {ANALYZING, STOPPING}
    /\ sf.idle = Fresh
    /\ sf' = [sf EXCEPT !.idle = Over5s]
    /\ UNCHANGED <<events, window, coalesced>>
    /\ UNCHANGED <<wrapper, calc>>

(* the worker has been silent for more than 15 s *)
LongSilence ==
    /\ sf.state \in {ANALYZING, STOPPING}
    /\ sf.idle = Over5s
    /\ events < MaxEvents
    /\ sf' = [sf EXCEPT !.idle = Over15s]
    /\ events' = events + 1
    /\ UNCHANGED <<window, coalesced>>
    /\ UNCHANGED <<wrapper, calc>>

WorkerUciOk ==
    /\ sf.worker /\ sf.wUci
    /\ sf' = Drain(onmessage([Begin(sf, "uciok") EXCEPT !.wUci = FALSE], "uciok"))
    /\ UNCHANGED <<events, window, coalesced>>
    /\ UNCHANGED <<wrapper, calc>>

WorkerReadyOk ==
    /\ sf.worker /\ sf.wReady > 0
    /\ sf' = Drain(onmessage([Begin(sf, "readyok") EXCEPT !.wReady = @ - 1], "readyok"))
    /\ UNCHANGED <<events, window, coalesced>>
    /\ UNCHANGED <<wrapper, calc>>

(* the search the worker is running writes an info line, with score and   *)
(* pv or without                                                           *)
WorkerInfo ==
    /\ sf.worker /\ sf.wSearch # <<>>
    /\ \E line \in {"info", "info string"} :
         sf' = Drain(onmessage([Begin(sf, "info") EXCEPT !.heard = Head(sf.wSearch).fen],
                               line))
    /\ UNCHANGED <<events, window, coalesced>>
    /\ UNCHANGED <<wrapper, calc>>

(* the worker writes a line that is none of the above: "id name ..." and   *)
(* "option name ..." in answer to uci, "info currmove ..." during a        *)
(* search, or an info line in which parseInfo finds no depth or no move    *)
WorkerOther ==
    /\ sf.worker
    /\ sf.wUci \/ sf.wSearch # <<>>
    /\ sf' = Drain(onmessage(Begin(sf, "other"), "id name"))
    /\ UNCHANGED <<events, window, coalesced>>
    /\ UNCHANGED <<wrapper, calc>>

WorkerBestMove ==
    /\ sf.worker /\ sf.wSearch # <<>> /\ Head(sf.wSearch).canEnd
    /\ sf' = Drain(onmessage([Begin(sf, "bestmove") EXCEPT !.wSearch = Tail(@)], "bestmove"))
    /\ UNCHANGED <<events, window, coalesced>>
    /\ UNCHANGED <<wrapper, calc>>

WorkerError ==
    /\ sf.worker
    /\ events < MaxEvents
    /\ sf' = Drain(onerror(Begin(sf, "error")))
    /\ events' = events + 1
    /\ UNCHANGED <<window, coalesced>>
    /\ UNCHANGED <<wrapper, calc>>

Next ==
    \/ CallerInit
    \/ CallerInitNoWorker
    \/ CallerAnalyze
    \/ CallerAnalyzeRefused
    \/ CallerStop
    \/ CallerTerminate
    \/ DebounceFire
    \/ StopTimeout
    \/ InitTimeout
    \/ InitTimeoutLate
    \/ RecoveryFire
    \/ RecoveryFireNoWorker
    \/ HealthCheck
    \/ HealthCheckNoWorker
    \/ Silence
    \/ LongSilence
    \/ WorkerUciOk
    \/ WorkerReadyOk
    \/ WorkerInfo
    \/ WorkerOther
    \/ WorkerBestMove
    \/ WorkerError

Spec == Init /\ [][Next]_vars

(* 5 s pass: the worker was silent, or it was heard *)
FiveSeconds ==
    \/ Silence
    \/ /\ sf.state \in {ANALYZING, STOPPING}
       /\ sf.idle = Fresh
       /\ (WorkerUciOk \/ WorkerReadyOk \/ WorkerInfo \/ WorkerOther \/ WorkerBestMove)

(* An armed debounce or stop timer fires, the health check interval keeps  *)
(* ticking and time passes.  Nothing is assumed of the worker or of the    *)
(* caller.                                                                 *)
FairSpec ==
    /\ Init /\ [][Next]_vars
    /\ WF_vars(DebounceFire)
    /\ WF_vars(StopTimeout)
    /\ WF_vars(HealthCheck)
    /\ WF_vars(FiveSeconds)

(* Every armed timer fires, the health check interval keeps ticking, and a *)
(* worker that was sent uci or isready answers it as long as it is not     *)
(* terminated.  Nothing is assumed of the caller.                          *)
InitFairSpec ==
    /\ Init /\ [][Next]_vars
    /\ WF_vars(InitTimeout)
    /\ WF_vars(InitTimeoutLate)
    /\ WF_vars(RecoveryFire)
    /\ WF_vars(DebounceFire)
    /\ WF_vars(StopTimeout)
    /\ WF_vars(HealthCheck)
    /\ WF_vars(WorkerUciOk)
    /\ WF_vars(WorkerReadyOk)

(* a line the worker sends out of turn: a bestmove or an info line with no *)
(* search started, a readyok with no isready outstanding                   *)
WorkerUnexpected ==
    /\ sf.worker
    /\ events < MaxEvents
    /\ \/ /\ sf.wSearch = <<>>
          /\ \/ sf' = Drain(onmessage(Begin(sf, "strayBestmove"), "bestmove"))
             \/ sf' = Drain(onmessage(Begin(sf, "strayInfo"), "info"))
       \/ /\ sf.wReady = 0
          /\ sf' = Drain(onmessage(Begin(sf, "strayReadyok"), "readyok"))
    /\ events' = events + 1
    /\ UNCHANGED <<window, coalesced>>
    /\ UNCHANGED <<wrapper, calc>>

(* the session with a worker that may also send unexpected lines *)
AnomalyNext == Next \/ WorkerUnexpected

AnomalySpec == Init /\ [][AnomalyNext]_vars

(* ---- the steps of the wrapper ---- *)
session == <<sf, events, window, coalesced>>

(* the timer of init, lines 310-312, sends uci *)
W_UciTimer ==
    /\ wrapper.uciTimer
    /\ wrapper' = W_send([wrapper EXCEPT !.uciTimer = FALSE, !.last = "uci"],
                         [name |-> "uci"])
    /\ UNCHANGED <<session, calc>>

(* worker.onmessage, lines 302-304, takes the next line *)
W_Deliver ==
    /\ wrapper.wire # <<>>
    /\ wrapper' = W_handleMessage([wrapper EXCEPT !.wire = Tail(@),
                                                  !.last = Head(wrapper.wire).type],
                                  Head(wrapper.wire))
    /\ UNCHANGED <<session, calc>>

W_CallerAnalyze ==
    /\ wrapper.calls < MaxCalls
    /\ \E fen \in Fens :
         wrapper' = W_analyze([wrapper EXCEPT !.calls = @ + 1, !.last = "analyze"],
                              fen, 0)
    /\ UNCHANGED <<session, calc>>

W_CallerStop ==
    /\ wrapper.calls < MaxCalls
    /\ wrapper' = W_stop([wrapper EXCEPT !.calls = @ + 1, !.last = "stop"])
    /\ UNCHANGED <<session, calc>>

(* the score the worker reports for a rank: a mate for the best line, a    *)
(* centipawn score for the others                                          *)
ScoreOf(rank) ==
    IF rank = 1 THEN [kind |-> "mate", value |-> -2] ELSE [kind |-> "cp", value |-> MaxScore]

(* the running search writes an info line with depth, multipv, score, pv *)
W_WorkerInfo ==
    /\ wrapper.wRun # NoFen
    /\ wrapper.wrote < MaxWrote
    /\ Len(wrapper.wire) < MaxWire
    /\ \E rank \in 1..MaxRank, depth \in 1..MaxDepth :
         wrapper' = [wrapper EXCEPT
                        !.wrote = @ + 1,
                        !.last = "worker",
                        !.wire = Append(@, [type |-> "info", multipv |-> rank,
                                            depth |-> depth, pv |-> TRUE, scored |-> TRUE,
                                            score |-> ScoreOf(rank), of |-> wrapper.wRun,
                                            n |-> wrapper.wrote + 1])]
    /\ UNCHANGED <<session, calc>>

(* the running search writes an info line without multipv, or without pv   *)
(* and depth ("info string ...")                                           *)
W_WorkerInfoBare ==
    /\ wrapper.wRun # NoFen
    /\ wrapper.wrote < MaxWrote
    /\ Len(wrapper.wire) < MaxWire
    /\ \E pv \in BOOLEAN :
         wrapper' = [wrapper EXCEPT
                        !.wrote = @ + 1,
                        !.last = "worker",
                        !.wire = Append(@, [type |-> "info", multipv |-> 0,
                                            depth |-> IF pv THEN 1 ELSE 0, pv |-> pv,
                                            scored |-> TRUE,
                                            score |-> [kind |-> "cp", value |-> 1],
                                            of |-> wrapper.wRun,
                                            n |-> wrapper.wrote + 1])]
    /\ UNCHANGED <<session, calc>>

(* the running search reaches its depth *)
W_WorkerDone ==
    /\ wrapper.wRun # NoFen
    /\ wrapper' = [wrapper EXCEPT !.wRun = NoFen, !.last = "worker",
                                  !.wire = Append(@, [type |-> "bestmove"])]
    /\ UNCHANGED <<session, calc>>

WrapperNext ==
    \/ W_UciTimer
    \/ W_Deliver
    \/ W_CallerAnalyze
    \/ W_CallerStop
    \/ W_WorkerInfo
    \/ W_WorkerInfoBare
    \/ W_WorkerDone

WrapperSpec == Init /\ [][WrapperNext]_vars

(* a line the worker is not expected to write: an info line with depth and *)
(* pv but without a score field ("info depth 1 pv e2e4"); parseInfo leaves *)
(* score at null, which the consumers read as 0                            *)
W_WorkerInfoNoScore ==
    /\ wrapper.wRun # NoFen
    /\ wrapper.wrote < MaxWrote
    /\ Len(wrapper.wire) < MaxWire
    /\ \E rank \in 0..1 :
         wrapper' = [wrapper EXCEPT
                        !.wrote = @ + 1,
                        !.last = "worker",
                        !.wire = Append(@, [type |-> "info", multipv |-> rank,
                                            depth |-> 1, pv |-> TRUE, scored |-> FALSE,
                                            score |-> [kind |-> "cp", value |-> 0],
                                            of |-> wrapper.wRun,
                                            n |-> wrapper.wrote + 1])]
    /\ UNCHANGED <<session, calc>>

(* the wrapper with a worker that may also write such lines *)
WrapperAnomalyNext == WrapperNext \/ W_WorkerInfoNoScore

WrapperAnomalySpec == Init /\ [][WrapperAnomalyNext]_vars

(* ---- the life of the workers ---- *)
(* worker.onerror, lines 308-311 *)
W_WorkerError ==
    /\ wrapper.worker
    /\ \E isRecoverable \in BOOLEAN :
         wrapper' = W_handleWorkerError([wrapper EXCEPT !.last = "error"], isRecoverable)
    /\ UNCHANGED <<session, calc>>

(* the restart timer of handleWorkerError, lines 356-366: isReady is false *)
(* when init() returns, so the test of line 360 fails and no re-analysis   *)
(* is scheduled                                                            *)
W_RestartTimer ==
    /\ wrapper.restartTimers > 0
    /\ \E spawned \in BOOLEAN, isRecoverable \in BOOLEAN :
         wrapper' = W_init([wrapper EXCEPT !.restartTimers = @ - 1, !.last = "restart"],
                           spawned, isRecoverable)
    /\ UNCHANGED <<session, calc>>

W_CallerDestroy ==
    /\ wrapper' = W_destroy([wrapper EXCEPT !.last = "destroy"])
    /\ UNCHANGED <<session, calc>>

W_LifeNext ==
    \/ W_UciTimer
    \/ W_Deliver
    \/ W_CallerAnalyze
    \/ W_WorkerDone
    \/ W_WorkerError
    \/ W_RestartTimer
    \/ W_CallerDestroy

(* the two engines are separate objects: a behaviour follows the session   *)
(* or the wrapper                                                          *)
WorkersNext ==
    \/ wrapper = NewWrapper /\ Next
    \/ sf = NewEngine /\ W_LifeNext

WorkersSpec == Init /\ [][WorkersNext]_vars

(* ---- the calls that set the number of lines ---- *)
(* the line counts a caller asks for; 0 in analyze() is a call without the *)
(* option                                                                  *)
LineCounts == {-1, 0, 1, 5, MaxLines}

W_CallerAnalyzeLines ==
    /\ wrapper.calls < MaxCalls
    /\ \E fen \in Fens, lineCount \in LineCounts :
         wrapper' = W_analyze([wrapper EXCEPT !.calls = @ + 1, !.last = "analyze"],
                              fen, lineCount)
    /\ UNCHANGED <<session, calc>>

W_CallerSetMultiPv ==
    /\ wrapper.calls < MaxCalls
    /\ \E n \in LineCounts :
         wrapper' = W_setMultiPv([wrapper EXCEPT !.calls = @ + 1, !.last = "setMultiPv"], n)
    /\ UNCHANGED <<session, calc>>

CallerSetMultiPV ==
    /\ events < MaxEvents
    /\ \E n \in LineCounts :
         sf' = Drain(setMultiPV(Begin(sf, "setMultiPV"), n))
    /\ events' = events + 1
    /\ UNCHANGED <<window, coalesced>>
    /\ UNCHANGED <<wrapper, calc>>

LineCountNext ==
    \/ W_UciTimer
    \/ W_Deliver
    \/ W_CallerAnalyzeLines
    \/ W_CallerSetMultiPv
    \/ CallerInit
    \/ WorkerUciOk
    \/ WorkerReadyOk
    \/ CallerSetMultiPV

LineCountSpec == Init /\ [][LineCountNext]_vars

(* ---- the calls of the score normalizer ---- *)
machines == <<sf, events, window, coalesced, wrapper>>

(* evalWinningChances is called on two scores *)
EvalChances ==
    /\ \E a \in ChanceScores, b \in ChanceScores :
         calc' = [fn |-> "evalWinningChances", a |-> a, b |-> b,
                  wa |-> evalWinningChances(a), wb |-> evalWinningChances(b)]
    /\ UNCHANGED machines

NormalizerNext == EvalChances

NormalizerSpec == Init /\ [][NormalizerNext]_vars

(* ---- the calls of the parser ---- *)
(* parseInfo of each engine reads the tail of a line after "pv" *)
ParsePv ==
    /\ \E tail \in PvTails :
         calc' = [fn |-> "parseInfo", tail |-> tail,
                  pv |-> parseInfoPv(tail), wpv |-> W_parseInfoPv(tail)]
    /\ UNCHANGED machines

ParserNext == ParsePv

ParserSpec == Init /\ [][ParserNext]_vars

TypeOK ==
    /\ sf.state \in EngineState
    /\ sf.recoveryAttempts \in 0..maxRecoveryAttempts
    /\ sf.mq = <<>>

(* ---- the claims ---- *)
Dispatched == {sf.dispatches[i] : i \in DOMAIN sf.dispatches}

(* the positions the worker has been given *)
WorkerPositions == {sf.wPos} \cup {sf.wSearch[i].fen : i \in DOMAIN sf.wSearch}

(* C1: a position superseded by a newer analyze() before its debounce     *)
(* window elapsed is never dispatched: no position-set or search-start     *)
(* command is ever sent for it and the worker never holds it; the request  *)
(* that superseded it is dispatched at most once.                          *)
C1_CoalescedNeverSent ==
    /\ \A p \in coalesced :
          /\ \A d \in Dispatched : d.fen # p
          /\ p \notin WorkerPositions
    /\ \A i, j \in DOMAIN sf.dispatches :
          sf.dispatches[i].id = sf.dispatches[j].id => i = j

(* P1 was superseded inside its window and P2 alone was dispatched, once *)
C1_Witness ==
    /\ 1 \in coalesced
    /\ Len(sf.dispatches) = 1
    /\ sf.dispatches[1].fen = 2
    /\ sf.wPos = 2

(* C2: a request is dispatched only if its id is the latest issued id at   *)
(* the moment of dispatch; a superseded candidate is dropped and no        *)
(* command is sent for it.                                                 *)
C2_DispatchOnlyLatest ==
    /\ \A d \in Dispatched : d.id = d.latest
    /\ \A id \in sf.dropped : \A d \in Dispatched : d.id # id

(* a superseded candidate was dropped and the newer request dispatched *)
C2_Witness ==
    /\ sf.dropped # {}
    /\ \E d \in Dispatched : \E id \in sf.dropped : d.id > id

(* C3: every dispatch (position-set + search-start) is made with the       *)
(* session in Ready, never in Analyzing or Stopping.                       *)
C3_DispatchInReady == \A d \in Dispatched : d.from = READY

(* a request that had to wait for the end of the previous search has been *)
(* dispatched                                                              *)
C3_Witness ==
    /\ Len(sf.dispatches) >= 2
    /\ sf.state = ANALYZING
    /\ sf.last \in {"bestmove", "stopTimeout"}

(* C4: when a BestMove arrives in Stopping and the queued request is still *)
(* the latest, that step moves the session to Ready and on to Analyzing    *)
(* for the queued request.                                                 *)
QueuedLatest(s) == s.pendingAnalysis # NoReq /\ s.pendingAnalysis.id = s.analysisId

C4_BestMoveDispatchesQueued ==
    [][(WorkerBestMove /\ sf.state = STOPPING /\ QueuedLatest(sf))
         => /\ sf'.trail = <<READY, ANALYZING>>
            /\ sf'.state = ANALYZING
            /\ sf'.currentFen = sf.pendingAnalysis.fen
            /\ sf'.currentAnalysisId = sf.pendingAnalysis.id
            /\ sf'.pendingAnalysis = NoReq
            /\ sf'.dispatches = Append(sf.dispatches,
                                       [fen |-> sf.pendingAnalysis.fen,
                                        id |-> sf.pendingAnalysis.id,
                                        infinite |-> sf.pendingAnalysis.infinite,
                                        latest |-> sf.analysisId,
                                        from |-> READY])]_vars

(* a BestMove ended the stopped search and the queued request runs *)
C4_Witness ==
    /\ sf.last = "bestmove"
    /\ sf.trail = <<READY, ANALYZING>>
    /\ Len(sf.dispatches) = 2
    /\ sf.dispatches[2].id = sf.analysisId
    /\ sf.stopTimers > 0

(* C5: after stop() in Analyzing the session leaves Stopping even if the   *)
(* worker never sends BestMove.                                            *)
C5_StopEventuallyLeavesStopping ==
    (sf.state = STOPPING /\ sf.last = "stop") ~> (sf.state # STOPPING)

(* C6: a request queued by superseding a live request (the stop command    *)
(* was sent by stopAndWait, whose promise is unresolved) does not wait for *)
(* ever: the session leaves Stopping, and the request is dispatched unless *)
(* a newer call supersedes it or the session fails or is torn down.        *)
SupersedeWaits ==
    /\ sf.state = STOPPING
    /\ sf.stopResolve
    /\ QueuedLatest(sf)

C6_SupersedeNeverDeadlocks ==
    /\ SupersedeWaits ~> ~SupersedeWaits
    /\ [][(SupersedeWaits /\ ~SupersedeWaits')
            => \/ sf'.currentAnalysisId = sf.pendingAnalysis.id
               \/ sf'.analysisId # sf.analysisId
               \/ sf'.state \in {UNINITIALIZED, INITIALIZING, ERROR}]_vars

(* the stop timeout forced Stopping to Ready and the queued request runs *)
C6_Witness ==
    /\ sf.last = "stopTimeout"
    /\ sf.trail = <<READY, ANALYZING>>
    /\ Len(sf.dispatches) = 2
    /\ sf.currentAnalysisId = sf.analysisId
    /\ Len(sf.wSearch) = 2

(* C7: when a recovery that follows a worker error event succeeds, the     *)
(* request that was live (session Analyzing) at the error is resubmitted.  *)
C7_FaultResubmitsLive ==
    (sf.lastRecovered.cause = "fault" /\ sf.lastRecovered.live # 0)
        => sf.lastRecovered.resub = sf.lastRecovered.live

C9_BoundedThenStaysInError ==
    /\ sf.recoveryAttempts <= maxRecoveryAttempts
    /\ sf.gaveUp => sf.state = ERROR

(* C10: when the retries are exhausted the caller has been told: it holds  *)
(* a rejected init outcome (the session has no terminal-error callback).   *)
C10_ExhaustionSurfaced == sf.gaveUp => sf.callerInit = "rejected"

(* C11: after terminate() the state is Uninitialized and there is no       *)
(* worker until the caller itself calls init() again, whatever timers were *)
(* pending when it was called.                                             *)
C11_TerminateIsTerminal ==
    sf.terminated => (sf.state = UNINITIALIZED /\ ~sf.worker)

(* C12: the session leaves Initializing for Ready, and the init outcome is *)
(* resolved, only on the readyok that answers the isready sent after       *)
(* uciok; no other line received while Initializing does either.           *)
C12_ReadyOnlyOnReadyOk ==
    [][(sf.state = INITIALIZING
          /\ \/ (sf'.trail # <<>> /\ Head(sf'.trail) = READY)
             \/ (sf.initPromise = "pending" /\ sf'.initPromise = "resolved"))
        => sf'.last = "readyok"]_vars

(* C13: the timeout of an init that is still Initializing moves the        *)
(* session to Error and rejects the pending outcome; the timeout of an     *)
(* init that readyok answered first changes nothing.                       *)
C13_InitTimeout ==
    /\ [][(InitTimeout /\ sf.state = INITIALIZING)
            => /\ sf'.state = ERROR
               /\ sf'.initPromise = "rejected"
               /\ ~sf'.initFn]_vars
    /\ [][InitTimeoutLate
            => /\ sf'.state = sf.state
               /\ sf'.initPromise = sf.initPromise
               /\ sf'.callerInit = sf.callerInit]_vars

(* C14: an info line passed to the analysis callback was written by the   *)
(* worker for the search of the live request, never for a superseded one.  *)
C14_NoStaleInfoDelivered ==
    sf.delivered # NoDelivery => sf.delivered.fen = sf.delivered.to

(* the lines stored in the wrapper's collection *)
Stored == {wrapper.pvLines[i] : i \in DOMAIN wrapper.pvLines} \ {NoLine}

HeadInfo ==
    /\ wrapper.wire # <<>>
    /\ Head(wrapper.wire).type = "info"
    /\ Head(wrapper.wire).depth > 0
    /\ Head(wrapper.wire).pv

(* C15: every line stored in pvLines, and every line of the emitted        *)
(* snapshot, was computed by the worker for the position of the most       *)
(* recent analyze() call.                                                  *)
C15_LinesOfCurrentPosition ==
    /\ \A l \in Stored : l.of = wrapper.currentFen
    /\ \A i \in DOMAIN wrapper.snapshot.pvLines :
          wrapper.snapshot.pvLines[i].of = wrapper.snapshot.pvLines[i].fen

(* C16: an info event of rank r replaces entry r of pvLines wholesale and  *)
(* leaves every other entry as it was, so each rank holds the record of    *)
(* its last event; the lines present are one per distinct rank seen since  *)
(* the collection was emptied, and the snapshot lists exactly them.        *)
C16_LastWriteWinsPerRank ==
    /\ [][(W_Deliver /\ HeadInfo) =>
            LET line == Head(wrapper.wire)
                r == IF line.multipv = 0 THEN 1 ELSE line.multipv
            IN /\ Len(wrapper'.pvLines) = IF Len(wrapper.pvLines) < r
                                          THEN r ELSE Len(wrapper.pvLines)
               /\ wrapper'.pvLines[r] =
                     [depth |-> line.depth, multiPv |-> r,
                      score |-> normalizeScore(wrapper, line.score),
                      fen |-> wrapper.currentFen, of |-> line.of, n |-> line.n,
                      raw |-> line.score]
               /\ \A i \in DOMAIN wrapper'.pvLines :
                     i # r => wrapper'.pvLines[i] =
                                 IF i <= Len(wrapper.pvLines)
                                 THEN wrapper.pvLines[i] ELSE NoLine
               /\ wrapper'.snapshot.pvLines = Present(wrapper'.pvLines)]_vars
    /\ [](/\ {i \in DOMAIN wrapper.pvLines : wrapper.pvLines[i] # NoLine} = wrapper.ranks
          /\ Len(Present(wrapper.pvLines)) = Cardinality(wrapper.ranks)
          /\ \A i \in wrapper.ranks : wrapper.pvLines[i].multiPv = i)

(* info events of ranks 2, 1, 1, 3 were taken in that order *)
C16_Witness ==
    /\ Len(wrapper.pvLines) = 3
    /\ wrapper.pvLines[2].n = 1
    /\ wrapper.pvLines[1].n = 3
    /\ wrapper.pvLines[3].n = 4
    /\ wrapper.last = "info"
    /\ Len(wrapper.snapshot.pvLines) = 3

(* C17: the depth of the emitted snapshot is the largest depth of the      *)
(* lines in it.                                                            *)
C17_SnapshotDepthIsMax ==
    wrapper.snapshot.pvLines # <<>> =>
        /\ \A i \in DOMAIN wrapper.snapshot.pvLines :
              wrapper.snapshot.pvLines[i].depth <= wrapper.snapshot.depth
        /\ \E i \in DOMAIN wrapper.snapshot.pvLines :
              wrapper.snapshot.pvLines[i].depth = wrapper.snapshot.depth

(* C18: the primary evaluation is the score of a line of rank 1. *)
C18_EvaluationFromRankOne ==
    wrapper.evaluation # NoLine => wrapper.evaluation.multiPv = 1

(* C19: only analyze() in a ready wrapper empties pvLines or removes a     *)
(* line from it; stop() and a bestmove leave it unchanged.                 *)
C19_ClearedOnlyByAnalyze ==
    /\ [][(\E i \in DOMAIN wrapper.pvLines :
              /\ wrapper.pvLines[i] # NoLine
              /\ (i > Len(wrapper'.pvLines) \/ wrapper'.pvLines[i] = NoLine))
            => (W_CallerAnalyze /\ wrapper.isReady)]_vars
    /\ [][(W_CallerStop \/ (W_Deliver /\ Head(wrapper.wire).type = "bestmove"))
            => wrapper'.pvLines = wrapper.pvLines]_vars

(* stop() was called and the bestmove taken, and the lines are still there *)
C19_Witness ==
    /\ wrapper.last = "bestmove"
    /\ wrapper.calls = 2
    /\ ~wrapper.isSearching
    /\ wrapper.wRun = NoFen
    /\ Stored # {}
    /\ wrapper.snapshot.pvLines = Present(wrapper.pvLines)

(* C20: normalizing twice for Black to move gives the score back, and      *)
(* normalizing for White to move leaves it unchanged; the stored score     *)
(* normalizes back to the score the worker reported.                       *)
C20_NormalizeInvolution ==
    /\ \A s \in Scores :
          LET black == [wrapper EXCEPT !.isWhiteTurn = FALSE]
              white == [wrapper EXCEPT !.isWhiteTurn = TRUE]
          IN /\ normalizeScore(black, normalizeScore(black, s)) = s
             /\ normalizeScore(white, s) = s
    /\ \A l \in Stored :
          normalizeScore([wrapper EXCEPT !.isWhiteTurn = isWhiteToMove(l.fen)],
                         l.score) = l.raw

(* a mate score and a centipawn score are stored negated for Black to move *)
C20_Witness ==
    /\ ~wrapper.isWhiteTurn
    /\ \E l \in Stored : l.raw = [kind |-> "mate", value |-> -2]
                         /\ l.score = [kind |-> "mate", value |-> 2]
    /\ \E l \in Stored : l.raw.kind = "cp" /\ l.score.value = -l.raw.value
                         /\ l.raw.value # 0

(* the score the wrapper's normalization gives for a line the worker       *)
(* computed for the position fen                                           *)
NormalizedFor(fen, score) ==
    normalizeScore([wrapper EXCEPT !.isWhiteTurn = isWhiteToMove(fen)], score)

(* C21: the score of every stored line, of every line of the emitted       *)
(* snapshot and of the primary evaluation is the reported score normalized *)
(* once by the side to move of the position the worker computed it for.    *)
C21_NormalizedOnceBySideToMove ==
    /\ \A l \in Stored : l.score = NormalizedFor(l.of, l.raw)
    /\ \A i \in DOMAIN wrapper.snapshot.pvLines :
          wrapper.snapshot.pvLines[i].score =
              NormalizedFor(wrapper.snapshot.pvLines[i].of, wrapper.snapshot.pvLines[i].raw)
    /\ wrapper.evaluation # NoLine =>
          wrapper.evaluation.score =
              NormalizedFor(wrapper.evaluation.of, wrapper.evaluation.raw)

(* the score negated, as normalizeScore negates it *)
Negated(score) == [score EXCEPT !.value = -@]

(* C22: the winning chance does not decrease when the centipawn value      *)
(* grows, is constant beyond the clamp at -1000 and 1000, and is odd (to   *)
(* the rounding of the last digit): the chance of the negated score is the *)
(* negated chance, for centipawn and mate scores.                          *)
C22_MonotoneAndOdd ==
    calc.fn = "evalWinningChances" =>
        /\ (calc.a.kind = "cp" /\ calc.b.kind = "cp" /\ calc.a.value <= calc.b.value)
              => calc.wa <= calc.wb
        /\ (calc.a.kind = "cp" /\ calc.b.kind = "cp"
              /\ \/ (calc.a.value >= 1000 /\ calc.b.value >= 1000)
                 \/ (calc.a.value <= -1000 /\ calc.b.value <= -1000))
              => calc.wa = calc.wb
        /\ calc.b = Negated(calc.a) => Abs(calc.wa + calc.wb) <= 1

(* C23: the centipawn equivalent of a mate lies in 1100..2000, above the   *)
(* clamp of 1000, does not grow with the number of moves to mate and is    *)
(* signed by the mating side: a shorter mate is never rated further from   *)
(* +1 or -1 than a longer one (to the rounding of the last digit when the  *)
(* two mates are for opposite sides), and a mate is rated more extreme     *)
(* than every centipawn score.                                             *)
C23_MateAboveCentipawns ==
    (calc.fn = "evalWinningChances" /\ calc.a.kind = "mate") =>
        /\ MateCp(calc.a.value) \in 1100..2000
        /\ (calc.wa > 0) = (calc.a.value > 0)
        /\ (calc.wa < 0) = (calc.a.value < 0)
        /\ (calc.b.kind = "mate" /\ Abs(calc.a.value) <= Abs(calc.b.value))
              => /\ MateCp(calc.a.value) >= MateCp(calc.b.value)
                 /\ Abs(calc.wa) + 1 >= Abs(calc.wb)
                 /\ (calc.a.value > 0) = (calc.b.value > 0)
                       => Abs(calc.wa) >= Abs(calc.wb)
        /\ (calc.b.kind = "cp" /\ calc.a.value > 0) => calc.wa > calc.wb
        /\ (calc.b.kind = "cp" /\ calc.a.value < 0) => calc.wa < calc.wb

(* a move in coordinate notation: from and to squares, and for a promotion *)
(* the letter of the piece                                                 *)
IsCoordinateMove(p) ==
    /\ Len(p) \in {4, 5}
    /\ p[1] \in Files /\ p[2] \in Ranks /\ p[3] \in Files /\ p[4] \in Ranks
    /\ Len(p) = 5 => p[5] \in {"q", "r", "b", "n"}

(* the tokens before the first one that is not a coordinate move *)
RECURSIVE MovePrefix(_)
MovePrefix(tail) ==
    IF tail = <<>> \/ ~IsCoordinateMove(Head(tail)) THEN <<>>
    ELSE <<Head(tail)>> \o MovePrefix(Tail(tail))

(* C24: the principal variation either parser keeps is the longest prefix  *)
(* of the tail made of coordinate moves: nothing from the first invalid    *)
(* token on is kept.                                                       *)
C24_PvIsLongestMovePrefix ==
    calc.fn = "parseInfo" =>
        /\ calc.pv = MovePrefix(calc.tail)
        /\ calc.wpv = MovePrefix(calc.tail)

(* C25: only a line that begins with the info token and holds a score and  *)
(* a principal variation changes the ranked lines or reaches the           *)
(* callbacks' evaluation; an info line lacking either changes nothing; a   *)
(* stored line whose multipv field was absent has rank 1.                  *)
C25_InfoNeedsScoreAndPv ==
    [][W_Deliver =>
         LET line == Head(wrapper.wire)
         IN /\ line.type # "info" =>
                  /\ wrapper'.pvLines = wrapper.pvLines
                  /\ wrapper'.evaluation = wrapper.evaluation
            /\ (line.type = "info" /\ ~(line.scored /\ line.pv)) =>
                  /\ wrapper'.pvLines = wrapper.pvLines
                  /\ wrapper'.snapshot = wrapper.snapshot
                  /\ wrapper'.evaluation = wrapper.evaluation
            /\ (line.type = "info" /\ line.scored /\ line.pv /\ line.depth > 0
                  /\ line.multipv = 0) =>
                  /\ wrapper'.pvLines[1].n = line.n
                  /\ wrapper'.pvLines[1].multiPv = 1]_vars

C27_QueuedUntilReady ==
    /\ [][(DebounceFire /\ sf.state = INITIALIZING)
            => /\ sf'.pendingAnalysis = sf.debounceTimer
               /\ sf'.state = INITIALIZING
               /\ sf'.dispatches = sf.dispatches
               /\ sf'.wPos = sf.wPos /\ sf'.wSearch = sf.wSearch]_vars
    /\ [][(WorkerReadyOk /\ sf.state = INITIALIZING /\ QueuedLatest(sf))
            => /\ sf'.trail = <<READY, ANALYZING>>
               /\ sf'.currentAnalysisId = sf.pendingAnalysis.id
               /\ sf'.currentFen = sf.pendingAnalysis.fen
               /\ sf'.wPos = sf.pendingAnalysis.fen
               /\ sf'.pendingAnalysis = NoReq
               /\ sf'.dispatches = Append(sf.dispatches,
                                          [fen |-> sf.pendingAnalysis.fen,
                                           id |-> sf.pendingAnalysis.id,
                                           infinite |-> sf.pendingAnalysis.infinite,
                                           latest |-> sf.analysisId,
                                           from |-> READY])]_vars
    /\ [](\A d \in Dispatched : d.from # INITIALIZING)

(* the request queued during the initialization runs since the readyok *)
C27_Witness ==
    /\ sf.last = "readyok"
    /\ sf.trail = <<READY, ANALYZING>>
    /\ Len(sf.dispatches) = 1
    /\ sf.dispatches[1].id = sf.analysisId
    /\ sf.callerInit = "resolved"
    /\ Len(sf.wSearch) = 1

(* C28: the stored number of lines, and the value of every MultiPV option  *)
(* sent to a worker, is in 1..5, in the wrapper and in the session.        *)
C28_LineCountWithinOneToFive ==
    /\ wrapper.multiPv \in 1..5
    /\ wrapper.optionsSent \subseteq 1..5
    /\ sf.multiPV \in 1..5
    /\ sf.optionsSent \subseteq 1..5

(* C29: a step in which the session changes state leaves the last-activity *)
(* time just updated (its age is under 5 s).                               *)
C29_TransitionUpdatesLastActivity ==
    [][(~(Silence \/ LongSilence) /\ sf'.trail # <<>>) => sf'.idle = Fresh]_vars

(* C30: the k-th recovery timer armed since the last successful recovery   *)
(* (k = 0, 1, 2) has the delay min(1000 * 2^k, 10000) ms, so the delays    *)
(* are 1 s, 2 s, 4 s: they start at 1 s, do not decrease and stay under    *)
(* the cap of 10 s.                                                        *)
C30_BackoffDelays ==
    /\ Len(sf.delays) = sf.recoveryAttempts
    /\ \A k \in 0..(Len(sf.delays) - 1) :
          /\ sf.delays[k + 1] = Min(1000 * 2^k, 10000)
          /\ sf.delays[k + 1] <= 10000
          /\ k > 0 => sf.delays[k] <= sf.delays[k + 1]
    /\ sf.delays \in {<<>>, <<1000>>, <<1000, 2000>>, <<1000, 2000, 4000>>}

(* three recoveries were scheduled in a row, the last one 4 s ahead *)
C30_Witness ==
    /\ sf.delays = <<1000, 2000, 4000>>
    /\ sf.recoveryAttempts = maxRecoveryAttempts
    /\ sf.recoveryTimers > 0

(* C31: a bestmove that answers a search the session no longer considers   *)
(* running (the worker still owes the bestmove of an earlier search, which *)
(* a stop timeout or the health check completed by force, while a later    *)
(* search is running or stopping) makes no state transition: the session   *)
(* stays Analyzing or Stopping for the later search.                       *)
C31_LateBestMoveIgnored ==
    [][(/\ WorkerBestMove
        /\ Len(sf.wSearch) >= 2
        /\ sf.state \in {ANALYZING, STOPPING})
       => (sf'.trail = <<>> /\ sf'.state = sf.state)]_vars

(* C32: a stop timer forces Stopping -> Ready only for the stop that armed *)
(* it.  The stop timers all run 3000 ms, so they fire in the order they    *)
(* were armed, and the stop in progress armed the latest one: when two or  *)
(* more are armed, the one that fires belongs to an earlier stop and must  *)
(* leave the session Stopping.                                             *)
C32_StopTimerOfItsOwnStop ==
    [][(/\ StopTimeout
        /\ sf.stopTimers >= 2
        /\ sf.state = STOPPING
        /\ sf.stopResolve)
       => (sf'.trail = <<>> /\ sf'.state = STOPPING)]_vars

(* C33: an init timer affects only the init attempt that armed it.  The    *)
(* init timers all run 15000 ms, so they fire in the order they were       *)
(* armed, and the attempt that is Initializing armed the latest one: when  *)
(* two or more are armed, none of them answered by readyok, the one that   *)
(* fires belongs to an earlier attempt (ended by a worker error, a         *)
(* recovery restart or terminate) and must neither reject the pending      *)
(* init nor move the session to Error.                                     *)
C33_InitTimerOfItsOwnAttempt ==
    [][(/\ InitTimeout
        /\ sf.initTimers >= 2
        /\ sf.initTimersLate = 0
        /\ sf.state = INITIALIZING)
       => (/\ sf'.state = INITIALIZING
           /\ sf'.trail = <<>>
           /\ sf'.initPromise = sf.initPromise)]_vars

(* C34: no request id is dispatched twice: the position and go commands    *)
(* are sent at most once for each id, whatever the order of the debounce   *)
(* timer, bestmove, readyok, the stop timeout and the continuations.       *)
C34_DispatchedAtMostOnce ==
    \A i, j \in DOMAIN sf.dispatches :
        sf.dispatches[i].id = sf.dispatches[j].id => i = j

(* the stop timeout dispatched the queued request, then the bestmove of    *)
(* the search it gave up arrived and found nothing left to dispatch        *)
C34_Witness ==
    /\ sf.last = "bestmove"
    /\ sf.state = READY
    /\ Len(sf.wSearch) >= 1
    /\ Len(sf.dispatches) >= 2
    /\ sf.dispatches[Len(sf.dispatches)].from = READY
    /\ sf.pendingAnalysis = NoReq

(* C35: a step that posts the stop command starts in Analyzing and ends in *)
(* Stopping, posts it once, and it is the only stop command posted since   *)
(* the search was dispatched; no stop command is posted from               *)
(* Uninitialized, Initializing, Ready, Stopping or Error.                  *)
C35_StopOnlyWhenAnalyzing ==
    [][(~(Silence \/ LongSilence) /\ sf'.stopsSent > 0)
       => (/\ sf.state = ANALYZING
           /\ sf'.state = STOPPING
           /\ sf'.stopsSent = 1
           /\ sf'.stopsOfSearch = 1)]_vars

(* the second search was stopped for a newer request, once *)
C35_Witness ==
    /\ sf.last = "debounce"
    /\ sf.stopsSent = 1
    /\ sf.stopsOfSearch = 1
    /\ sf.state = STOPPING
    /\ Len(sf.dispatches) = 2

(* C36: whenever the session is Ready, the recovery-attempt counter is 0 *)
C36_ReadyHasFullRetryBudget ==
    sf.state = READY => sf.recoveryAttempts = 0

(* C37: the request that a successful recovery resubmits has the search    *)
(* mode of the request that was live before the failure.  The caller asks  *)
(* for every position once, so the dispatches of the resubmitted position  *)
(* are the live request and its earlier resubmissions.                     *)
C37_ResubmittedInSameMode ==
    (/\ sf.lastRecovered.resub # 0
     /\ sf.debounceTimer # NoReq
     /\ sf.debounceTimer.fen = sf.lastRecovered.resub)
    => \A i \in DOMAIN sf.dispatches :
          sf.dispatches[i].fen = sf.lastRecovered.resub
             => sf.dispatches[i].infinite = sf.debounceTimer.infinite

(* C38: the promise that the caller's init() returned is eventually        *)
(* resolved or rejected, whatever is called while it is pending.           *)
C38_InitEventuallySettled ==
    (sf.callerInit = "pending") ~> (sf.callerInit # "pending")

(* C40: in the wrapper, isSearching is true as long as the worker runs a   *)
(* search: handling the bestmove of a search that analyze() stopped to     *)
(* start a new one leaves isSearching true for the new search, so that a   *)
(* later stop() sends the stop command.                                    *)
C40_SearchingWhileWorkerSearches ==
    wrapper.wRun # NoFen => wrapper.isSearching

(* C39: each engine has at most one worker that was spawned and not        *)
(* terminated, it is the one the engine refers to, and nothing is left to  *)
(* be delivered from a worker that was terminated.                         *)
C39_AtMostOneWorker ==
    /\ sf.workers \in {0, 1}
    /\ sf.worker <=> sf.workers = 1
    /\ ~sf.worker => (~sf.wUci /\ sf.wReady = 0 /\ sf.wSearch = <<>>)
    /\ wrapper.workers \in {0, 1}
    /\ wrapper.worker <=> wrapper.workers = 1
    /\ ~wrapper.worker => (wrapper.wire = <<>> /\ wrapper.wRun = NoFen)

(* the recovery timer terminated the failed worker and spawned the next *)
C39_Witness ==
    /\ sf.last = "recovery"
    /\ sf.state = INITIALIZING
    /\ sf.initTimers >= 2
    /\ sf.worker
    /\ sf.workers = 1

====
